---- MODULE Spec2Model ----
(***************************************************************************)
(* Model of the Test Case Generator API (src/main.py).                     *)
(*                                                                         *)
(* One FastAPI process holds one chat session and one staging directory.   *)
(* POST /upload-and-generate resolves a code string from the form field    *)
(* `code` or from an uploaded file, sends one prompt to the shared chat    *)
(* session and splits the reply into two fields.                           *)
(*                                                                         *)
(* Strings are sequences of characters; the characters are written as the  *)
(* TLA+ strings "a", "SP" (space), "LF" (line feed), "CR" (carriage        *)
(* return) and "xFF" (a byte that is not valid in the text encoding).      *)
(* An optional value is a sequence of length 0 (absent) or 1 (present).    *)
(***************************************************************************)
EXTENDS Integers, Sequences, FiniteSets, TLC

(* ------------------------------ bounds --------------------------------- *)

\* Requests the process receives in one run.
MaxRequests == 2

\* Longest inline `code` form field enumerated.
MaxCodeLen == 2

\* Longest uploaded file enumerated, in bytes.
MaxFileLen == 2

\* Longest model reply enumerated.
MaxReplyLen == 5

(* ------------------------------ strings -------------------------------- *)

Range(s) == {s[i] : i \in DOMAIN s}

RECURSIVE SeqsUpTo(_, _)
\* All sequences over `alphabet` of length at most n.
SeqsUpTo(alphabet, n) ==
    IF n = 0 THEN {<<>>}
    ELSE LET shorter == SeqsUpTo(alphabet, n - 1)
         IN  shorter \cup {Append(s, c) : s \in shorter, c \in alphabet}

\* The characters str.strip() removes, among those of the model.
Whitespace == {"SP", "LF", "CR"}

RECURSIVE LStrip(_)
LStrip(s) ==
    IF s = <<>> THEN <<>>
    ELSE IF Head(s) \in Whitespace THEN LStrip(Tail(s)) ELSE s

RECURSIVE RStrip(_)
RStrip(s) ==
    IF s = <<>> THEN <<>>
    ELSE IF s[Len(s)] \in Whitespace THEN RStrip(SubSeq(s, 1, Len(s) - 1)) ELSE s

\* str.strip()
Strip(s) == RStrip(LStrip(s))

RECURSIVE SplitAll(_)
\* str.split('\n'): every line break separates.
SplitAll(s) ==
    IF s = <<>> THEN << <<>> >>
    ELSE IF Head(s) = "LF" THEN << <<>> >> \o SplitAll(Tail(s))
    ELSE LET rest == SplitAll(Tail(s))
         IN  << <<Head(s)>> \o rest[1] >> \o Tail(rest)

RECURSIVE Split1(_)
\* str.split('\n', 1): at most one split, at the first line break.
Split1(s) ==
    IF s = <<>> THEN << <<>> >>
    ELSE IF Head(s) = "LF" THEN << <<>>, Tail(s) >>
    ELSE LET rest == Split1(Tail(s))
         IN  << <<Head(s)>> \o rest[1] >> \o Tail(rest)

\* num_test_cases, before the final strip (line 84)
NumTestCases(result) == Split1(result)[1]

TestCases_noguard(result) ==
    IF Len(Split1(result)) > 1 THEN Split1(result)[2] ELSE <<>>

\* test_cases, before the final strip (line 85)
TestCases(result) ==
    IF "LF" \in Range(result) THEN Split1(result)[2] ELSE result

\* The JSON body of the success response (lines 87-90)
ResponseBody(result) ==
    [num_test_cases |-> Strip(NumTestCases(result)),
     test_cases     |-> Strip(TestCases(result))]

(* ------------------------- code resolution ----------------------------- *)

\* `code and code.strip()` without the strip: a blank field counts as code.
NonBlank_nostrip(code) == code # <<>> /\ code[1] # <<>>

\* `code and code.strip()` (line 68); code is an optional string.
NonBlank(code) == code # <<>> /\ code[1] # <<>> /\ Strip(code[1]) # <<>>

\* The if/elif/else of lines 68-78 with the two tests in the other order.
Source_fileFirst(code, file) ==
    IF file # <<>> THEN "file"
    ELSE IF NonBlank(code) THEN "inline"
    ELSE "none"

\* Which branch of lines 68-78 a request takes.
Source(code, file) ==
    IF NonBlank(code) THEN "inline"
    ELSE IF file # <<>> THEN "file"
    ELSE "none"

\* f.read() on a file opened with mode "r" (lines 75-76): the bytes are
\* decoded, which fails on an invalid byte, and every CR LF or lone CR
\* becomes LF (universal newlines).  <<>> is the decoding error.
RECURSIVE Newlines(_)
Newlines(b) ==
    IF b = <<>> THEN <<>>
    ELSE IF Head(b) = "CR"
         THEN IF Len(b) > 1 /\ b[2] = "LF"
              THEN <<"LF">> \o Newlines(Tail(Tail(b)))
              ELSE <<"LF">> \o Newlines(Tail(b))
    ELSE <<Head(b)>> \o Newlines(Tail(b))

ReadText(bytes) ==
    IF "xFF" \in Range(bytes) THEN <<>> ELSE << Newlines(bytes) >>

\* Opening with mode "ab": the upload is added to what the file held.
WriteBytes_append(dir, name, bytes) ==
    [dir EXCEPT ![name] = IF dir[name] = <<>> THEN <<bytes>>
                          ELSE << dir[name][1] \o bytes >>]

\* Collision handling: an existing file is kept.
WriteBytes_keep(dir, name, bytes) ==
    [dir EXCEPT ![name] = IF dir[name] = <<>> THEN <<bytes>> ELSE dir[name]]

\* open("wb") and write (lines 72-73): the file is created or truncated and
\* holds exactly the uploaded bytes.
WriteBytes(dir, name, bytes) == [dir EXCEPT ![name] = <<bytes>>]

\* The prompt of lines 50-57: fixed instructions, the code, a closing ask.
Prompt(code_input) ==
    <<"INSTRUCTIONS", "LF", "LF">> \o code_input \o <<"LF", "LF", "CLOSING">>

\* A chat that is started anew for each message.
Exchange_fresh(hist, prompt, reply) == << [prompt |-> prompt, reply |-> reply] >>

\* chat_session.send_message returning (line 58): the session keeps the
\* prompt and the reply at the end of its history.
Exchange(hist, prompt, reply) == Append(hist, [prompt |-> prompt, reply |-> reply])

(* ------------------------------ inputs --------------------------------- *)

Tasks == 1 .. MaxRequests

\* Names under which files are staged; uploads/sample.py is in the repository.
FileNames == {"sample.py", "t.py"}

\* The staging directory at startup (lines 41-42 keep what is there).
InitialUploads == [n \in FileNames |-> IF n = "sample.py" THEN << <<"s">> >> ELSE <<>>]

Files(contents) ==
    {<<>>} \cup {<< [filename |-> n, bytes |-> b] >> : n \in FileNames, b \in contents}

\* Every form field `code` up to MaxCodeLen, and the absent field.
AllCodes == {<<>>} \cup {<<c>> : c \in SeqsUpTo({"a", "SP"}, MaxCodeLen)}

\* Every upload up to MaxFileLen bytes, and no upload.
AllFiles == Files(SeqsUpTo({"a", "CR", "LF", "xFF"}, MaxFileLen))

\* Every reply text up to MaxReplyLen, and a reply without a text part.
AllReplies == {<<>>} \cup {<<t>> : t \in SeqsUpTo({"3", "C", "SP", "LF"}, MaxReplyLen)}

\* Representative inputs for runs with several requests.
SomeCodes == {<<>>, << <<"SP", "a">> >>}

SomeFiles == Files({<<"a">>, <<"b", "CR">>, <<"xFF">>})

SomeReplies == {<<>>, << <<"3", "LF", "C">> >>}

(* ------------------------------- state --------------------------------- *)

VARIABLES
    chat_session,   \* the history of the process-wide chat session (line 35)
    uploads,        \* the staging directory: name -> optional bytes (line 41)
    running,        \* the task the event loop is running, optional
    pc,             \* each request's position in upload_and_generate
    code,           \* each request's form field `code`, optional
    file,           \* each request's upload, optional
    code_input,     \* the local code_input, optional until it is assigned
    prompt,         \* the local prompt of generate_test_cases, optional
    result,         \* the reply of send_message, once it returned
    status,         \* HTTP status of the answer, 0 while there is none
    detail,         \* the error detail of the answer
    response,       \* the JSON body of a success answer, optional
    sends,          \* prompts the request has sent to the chat session
    context,        \* history of the chat session when the prompt was sent
    before,         \* the staging directory when the handler started
    exchanged,      \* requests whose send_message returned, in that order
    seen,           \* Len(exchanged) when the request sent its prompt
    upstream_failed,\* the request's send_message raised
    written         \* name -> the bytes most recently written under it

vars == <<chat_session, uploads, running, pc, code, file, code_input, prompt, result,
          status, detail, response, sends, context, before, exchanged, seen,
          upstream_failed, written>>

request_vars == <<code, file>>
answer_vars == <<status, detail, response>>
local_vars == <<code_input, prompt>>

Init ==
    /\ chat_session = <<>>
    /\ uploads = InitialUploads
    /\ running = <<>>
    /\ pc = [r \in Tasks |-> "idle"]
    /\ code = [r \in Tasks |-> <<>>]
    /\ file = [r \in Tasks |-> <<>>]
    /\ code_input = [r \in Tasks |-> <<>>]
    /\ prompt = [r \in Tasks |-> <<>>]
    /\ result = [r \in Tasks |-> <<>>]
    /\ status = [r \in Tasks |-> 0]
    /\ detail = [r \in Tasks |-> ""]
    /\ response = [r \in Tasks |-> <<>>]
    /\ sends = [r \in Tasks |-> 0]
    /\ context = [r \in Tasks |-> <<>>]
    /\ before = [r \in Tasks |-> InitialUploads]
    /\ exchanged = <<>>
    /\ seen = [r \in Tasks |-> 0]
    /\ upstream_failed = [r \in Tasks |-> FALSE]
    /\ written = [n \in FileNames |-> <<>>]

(* ----------------------------- scheduling ------------------------------ *)

\* The handler awaits the service's reply.
SuspendAtAwait == {"await"}

\* The handler awaits between staging the file and reading it back.
SuspendAtRead == {"read"}

\* upload_and_generate is a coroutine (line 63) and the event loop runs one
\* coroutine at a time; a coroutine gives the loop up only at an await.  Its
\* body (lines 68-90) has none: file.file.read(), the open() calls and
\* chat_session.send_message are plain blocking calls.  These are the
\* positions at which the handler is suspended.
SuspensionPoints == {}

\* The task running after request r moved to position `next`.
Holds(r, next) ==
    IF next \in SuspensionPoints \cup {"done"} THEN <<>> ELSE <<r>>

Step(r, next) ==
    /\ pc' = [pc EXCEPT ![r] = next]
    /\ running' = Holds(r, next)

\* The call is tried again after a failure.
RetryAfterUpstreamFailure == "send"

\* No try/except surrounds send_message (lines 58, 81): the exception ends
\* the handler.
AfterUpstreamFailure == "done"

(* ------------------------------ actions -------------------------------- *)

\* The framework has parsed a POST /upload-and-generate (lines 62-66) and
\* scheduled its handler.  Requests are numbered in their order of arrival.
Arrive(r, codes, files) ==
    /\ pc[r] = "idle"
    /\ \A q \in Tasks : q < r => pc[q] # "idle"
    /\ \E c \in codes, f \in files :
          /\ code' = [code EXCEPT ![r] = c]
          /\ file' = [file EXCEPT ![r] = f]
    /\ pc' = [pc EXCEPT ![r] = "ready"]
    /\ UNCHANGED <<chat_session, uploads, running, local_vars, result,
                   answer_vars, sends, context, before, exchanged, seen,
                   upstream_failed, written>>

\* The event loop is free and runs the handler of r, from its start or from
\* the position at which it was suspended.
Dispatch(r) ==
    /\ running = <<>>
    /\ pc[r] \in {"ready"} \cup SuspensionPoints
    /\ running' = <<r>>
    /\ pc' = [pc EXCEPT ![r] = IF pc[r] = "ready" THEN "resolve" ELSE pc[r]]
    /\ before' = [before EXCEPT ![r] = IF pc[r] = "ready" THEN uploads ELSE before[r]]
    /\ UNCHANGED <<chat_session, uploads, request_vars, local_vars, result,
                   answer_vars, sends, context, exchanged, seen,
                   upstream_failed, written>>

\* Lines 68-70 and 77-78: choose the source of the code.
Resolve(r) ==
    /\ running = <<r>>
    /\ pc[r] = "resolve"
    /\ LET source == Source(code[r], file[r])
       IN  /\ Step(r, CASE source = "inline" -> "send"
                        [] source = "file"   -> "write"
                        [] source = "none"   -> "done")
           /\ code_input' = [code_input EXCEPT ![r] =
                               IF source = "inline" THEN << Strip(code[r][1]) >>
                               ELSE code_input[r]]
           /\ status' = [status EXCEPT ![r] = IF source = "none" THEN 400 ELSE status[r]]
           /\ detail' = [detail EXCEPT ![r] =
                           IF source = "none" THEN "No code or file provided"
                           ELSE detail[r]]
    /\ UNCHANGED <<chat_session, uploads, request_vars, prompt, result, response, sends,
                   context, before, exchanged, seen, upstream_failed, written>>

\* Lines 71-73: stage the upload under its own filename.
Write(r) ==
    /\ running = <<r>>
    /\ pc[r] = "write"
    /\ LET f == file[r][1]
       IN  /\ uploads' = WriteBytes(uploads, f.filename, f.bytes)
           /\ written' = [written EXCEPT ![f.filename] = <<f.bytes>>]
    /\ Step(r, "read")
    /\ UNCHANGED <<chat_session, request_vars, local_vars, result, answer_vars,
                   sends, context, before, exchanged, seen, upstream_failed>>

\* Lines 75-76: read the staged file back as text.  A file that cannot be
\* decoded raises, which the framework answers with status 500.
Read(r) ==
    /\ running = <<r>>
    /\ pc[r] = "read"
    /\ LET staged == uploads[file[r][1].filename]
           text   == IF staged = <<>> THEN <<>> ELSE ReadText(staged[1])
       IN  /\ Step(r, IF text = <<>> THEN "done" ELSE "send")
           /\ code_input' = [code_input EXCEPT ![r] = text]
           /\ status' = [status EXCEPT ![r] = IF text = <<>> THEN 500 ELSE status[r]]
           /\ detail' = [detail EXCEPT ![r] =
                           IF text = <<>> THEN "Internal Server Error" ELSE detail[r]]
    /\ UNCHANGED <<chat_session, uploads, request_vars, prompt, result, response, sends,
                   context, before, exchanged, seen, upstream_failed, written>>

\* Lines 81, 50-58: generate_test_cases builds the prompt and calls
\* chat_session.send_message; the prompt leaves for the remote service.
SendPrompt(r) ==
    /\ running = <<r>>
    /\ pc[r] = "send"
    /\ prompt' = [prompt EXCEPT ![r] = << Prompt(code_input[r][1]) >>]
    /\ sends' = [sends EXCEPT ![r] = sends[r] + 1]
    /\ context' = [context EXCEPT ![r] = chat_session]
    /\ seen' = [seen EXCEPT ![r] = Len(exchanged)]
    /\ Step(r, "await")
    /\ UNCHANGED <<chat_session, uploads, request_vars, code_input, result,
                   answer_vars, before, exchanged, upstream_failed, written>>

\* Line 58: send_message returns the service's reply, with or without a
\* text part, and the session records the exchange.
UpstreamReturns(r, replies) ==
    /\ running = <<r>>
    /\ pc[r] = "await"
    /\ \E reply \in replies :
          /\ chat_session' = Exchange(chat_session, prompt[r][1], reply)
          /\ result' = [result EXCEPT ![r] = reply]
    /\ exchanged' = Append(exchanged, r)
    /\ Step(r, "text")
    /\ UNCHANGED <<uploads, request_vars, local_vars, answer_vars, sends,
                   context, before, seen, upstream_failed, written>>

\* Line 58: send_message raises (network error, quota, blocked prompt); the
\* session's history is as before the call.
UpstreamFails(r) ==
    /\ running = <<r>>
    /\ pc[r] = "await"
    /\ upstream_failed' = [upstream_failed EXCEPT ![r] = TRUE]
    /\ Step(r, AfterUpstreamFailure)
    /\ status' = [status EXCEPT ![r] =
                    IF AfterUpstreamFailure = "done" THEN 500 ELSE status[r]]
    /\ detail' = [detail EXCEPT ![r] =
                    IF AfterUpstreamFailure = "done" THEN "Internal Server Error"
                    ELSE detail[r]]
    /\ UNCHANGED <<chat_session, uploads, request_vars, local_vars, result,
                   response, sends, context, before, exchanged, seen, written>>

\* Lines 59 and 84-90: response.text raises when the reply has no text part;
\* otherwise the text is split and the two fields are returned.
Respond(r) ==
    /\ running = <<r>>
    /\ pc[r] = "text"
    /\ status' = [status EXCEPT ![r] = IF result[r] = <<>> THEN 500 ELSE 200]
    /\ detail' = [detail EXCEPT ![r] =
                    IF result[r] = <<>> THEN "Internal Server Error" ELSE detail[r]]
    /\ response' = [response EXCEPT ![r] =
                      IF result[r] = <<>> THEN <<>> ELSE << ResponseBody(result[r][1]) >>]
    /\ Step(r, "done")
    /\ UNCHANGED <<chat_session, uploads, request_vars, local_vars, result, sends,
                   context, before, exchanged, seen, upstream_failed, written>>

(* --------------------------- specifications ---------------------------- *)

\* Several requests in flight in one process.
Next ==
    \E r \in Tasks :
        \/ Arrive(r, SomeCodes, SomeFiles)
        \/ Dispatch(r)
        \/ Resolve(r)
        \/ Write(r)
        \/ Read(r)
        \/ SendPrompt(r)
        \/ UpstreamReturns(r, SomeReplies)
        \/ UpstreamFails(r)
        \/ Respond(r)

Spec == Init /\ [][Next]_vars

\* One request, over every code field and every upload within the bounds.
NextOne ==
    \/ Arrive(1, AllCodes, AllFiles)
    \/ Dispatch(1)
    \/ Resolve(1)
    \/ Write(1)
    \/ Read(1)
    \/ SendPrompt(1)
    \/ UpstreamReturns(1, SomeReplies)
    \/ UpstreamFails(1)
    \/ Respond(1)

SpecOne == Init /\ [][NextOne]_vars

\* One request with inline code, over every reply within the bounds.
NextReply ==
    \/ Arrive(1, {<< <<"a">> >>}, {<<>>})
    \/ Dispatch(1)
    \/ Resolve(1)
    \/ SendPrompt(1)
    \/ UpstreamReturns(1, AllReplies)
    \/ UpstreamFails(1)
    \/ Respond(1)

SpecReply == Init /\ [][NextReply]_vars

(* ------------------------ vocabulary of the claims --------------------- *)

\* The form field is absent, empty, or nothing but whitespace.
IsBlankField(c) == c = <<>> \/ \A i \in DOMAIN c[1] : c[1][i] \in Whitespace

\* t is s without its leading and trailing whitespace.
IsTrimOf(t, s) ==
    \E i, j \in 0 .. Len(s) :
        /\ i + j <= Len(s)
        /\ t = SubSeq(s, i + 1, Len(s) - j)
        /\ \A k \in 1 .. i : s[k] \in Whitespace
        /\ \A k \in (Len(s) - j + 1) .. Len(s) : s[k] \in Whitespace
        /\ t = <<>> \/ (t[1] \notin Whitespace /\ t[Len(t)] \notin Whitespace)

HasLineBreak(s) == \E i \in DOMAIN s : s[i] = "LF"

\* The handler of r has chosen its source of code (it is past lines 68-78).
PastResolve(r) == pc[r] \in {"write", "read", "send", "await", "text", "done"}

\* The handler of r has staged its upload (it is past lines 71-73).
PastWrite(r) == pc[r] \in {"read", "send", "await", "text", "done"}

\* r takes its code from its upload.
FileBased(r) == IsBlankField(code[r]) /\ file[r] # <<>>

\* r carries code or a file.
Valid(r) == ~ (IsBlankField(code[r]) /\ file[r] = <<>>)

\* The exchange of request q as the chat session records it.
ExchangeOf(q) == [prompt |-> prompt[q][1], reply |-> result[q]]

(* ------------------------------- claims -------------------------------- *)

\* C1 as stated: with a non-blank code field the code sent to the model is
\* the inline text itself, and the staging directory is as it was.
C1_AsStated ==
    \A r \in Tasks :
        (~ IsBlankField(code[r]) /\ PastResolve(r)) =>
            /\ code_input[r] = code[r]
            /\ uploads = before[r]

\* C1 amended: with a non-blank code field the file is ignored: the code
\* sent to the model is the inline text without its leading and trailing
\* whitespace, the prompt embeds that text, and the staging directory is as
\* it was when the handler started (no file is written).
C1_InlineWins ==
    \A r \in Tasks :
        (~ IsBlankField(code[r]) /\ PastResolve(r)) =>
            /\ code_input[r] # <<>>
            /\ IsTrimOf(code_input[r][1], code[r][1])
            /\ sends[r] >= 1 => prompt[r] = << Prompt(code_input[r][1]) >>
            /\ uploads = before[r]
            /\ \A n \in FileNames : written[n] = <<>>
            /\ pc[r] \notin {"write", "read"}

\* A request with non-blank code and a file has been answered 200.
C1_Witness ==
    \E r \in Tasks :
        /\ ~ IsBlankField(code[r])
        /\ file[r] # <<>>
        /\ pc[r] = "done"
        /\ status[r] = 200

\* C2: a request with neither code nor file is answered 400 with the detail
\* "No code or file provided"; it sends no prompt and gets no success body.
C2_BadRequest ==
    \A r \in Tasks :
        (IsBlankField(code[r]) /\ file[r] = <<>>) =>
            /\ sends[r] = 0
            /\ response[r] = <<>>
            /\ status[r] \in {0, 400}
            /\ pc[r] \in {"idle", "ready", "resolve", "done"}
            /\ pc[r] = "done" =>
                  status[r] = 400 /\ detail[r] = "No code or file provided"

\* A request whose code field is present but blank, without a file, is done.
C2_Witness ==
    \E r \in Tasks :
        /\ code[r] # <<>>
        /\ code[r][1] # <<>>
        /\ IsBlankField(code[r])
        /\ file[r] = <<>>
        /\ pc[r] = "done"

\* C3: with a blank code field and an upload of contents X, the staged file
\* under the upload's filename holds exactly X, and the code sent to the
\* model is that file read back as text.
C3_RoundTrip ==
    \A r \in Tasks :
        (FileBased(r) /\ PastWrite(r)) =>
            LET f == file[r][1]
            IN  /\ uploads[f.filename] = << f.bytes >>
                /\ pc[r] # "read" => code_input[r] = ReadText(uploads[f.filename][1])
                /\ sends[r] >= 1 =>
                      /\ code_input[r] # <<>>
                      /\ prompt[r] = << Prompt(code_input[r][1]) >>
                /\ (pc[r] = "done" /\ code_input[r] # <<>>) => sends[r] = 1

\* A file with a carriage return replaced uploads/sample.py and was used.
C3_Witness ==
    \E r \in Tasks :
        /\ FileBased(r)
        /\ file[r][1].filename = "sample.py"
        /\ "CR" \in Range(file[r][1].bytes)
        /\ pc[r] = "done"
        /\ status[r] = 200

\* C4: for a reply with a line break, num_test_cases is what precedes the
\* first line break and test_cases is everything after it, each without
\* leading and trailing whitespace.
C4_Split ==
    \A r \in Tasks :
        (status[r] = 200 /\ HasLineBreak(result[r][1])) =>
            LET reply == result[r][1]
                first == CHOOSE i \in DOMAIN reply :
                            reply[i] = "LF" /\ \A k \in 1 .. (i - 1) : reply[k] # "LF"
            IN  /\ response[r] # <<>>
                /\ IsTrimOf(response[r][1].num_test_cases, SubSeq(reply, 1, first - 1))
                /\ IsTrimOf(response[r][1].test_cases,
                            SubSeq(reply, first + 1, Len(reply)))

\* The reply "3\nC\nC" was answered with count "3" and cases "C\nC".
C4_Witness ==
    \E r \in Tasks :
        /\ status[r] = 200
        /\ result[r] = << <<"3", "LF", "C", "LF", "C">> >>
        /\ response[r][1].num_test_cases = <<"3">>
        /\ response[r][1].test_cases = <<"C", "LF", "C">>

\* C5: for a reply without a line break both fields are the whole reply
\* without its leading and trailing whitespace.
C5_NoLineBreak ==
    \A r \in Tasks :
        (status[r] = 200 /\ ~ HasLineBreak(result[r][1])) =>
            /\ response[r] # <<>>
            /\ response[r][1].num_test_cases = response[r][1].test_cases
            /\ IsTrimOf(response[r][1].test_cases, result[r][1])

\* A reply of two words and no line break was answered.
C5_Witness ==
    \E r \in Tasks :
        /\ status[r] = 200
        /\ result[r] = << <<"SP", "C", "SP", "C">> >>
        /\ response[r][1].test_cases = <<"C", "SP", "C">>

\* C6: the one chat session is never replaced or reset: its history is the
\* exchanges of all requests whose call returned, in the order they returned,
\* and the history a request's prompt is sent into holds the exchanges of all
\* requests that completed their call earlier, in that order.
C6_OneSession ==
    /\ chat_session = [i \in 1 .. Len(exchanged) |-> ExchangeOf(exchanged[i])]
    /\ \A r \in Tasks :
          sends[r] >= 1 =>
              context[r] = [i \in 1 .. seen[r] |-> ExchangeOf(exchanged[i])]

\* A prompt was sent into a history that holds an earlier request's exchange.
C6_Witness ==
    \E r \in Tasks :
        /\ sends[r] >= 1
        /\ Len(context[r]) >= 1
        /\ Len(chat_session) = MaxRequests

\* C7: a file staged under a name stays in the staging directory and holds
\* the bytes of the most recent upload written under that name; what the
\* directory held at startup is never removed either.
C7_LastWriteStays ==
    \A n \in FileNames :
        /\ written[n] # <<>> => uploads[n] = written[n]
        /\ InitialUploads[n] # <<>> => uploads[n] # <<>>

\* Two requests staged different bytes under the same name.
C7_Witness ==
    \E a, b \in Tasks :
        /\ a # b
        /\ FileBased(a) /\ PastWrite(a)
        /\ FileBased(b) /\ PastWrite(b)
        /\ file[a][1].filename = file[b][1].filename
        /\ file[a][1].bytes # file[b][1].bytes

\* C8 as stated: while request A waits for the reply to its prompt, a second
\* request B in flight can run its handler, and so send its own prompt.
C8_AsStated ==
    \A a, b \in Tasks :
        (a # b /\ pc[a] = "await" /\ pc[b] = "ready") => ENABLED Dispatch(b)

\* C8 amended: prompts of one process never interleave in the chat session:
\* while a request waits for its reply it holds the event loop, and every
\* other request is not yet started or already answered; so the context a
\* prompt is sent into holds another request's prompt only together with
\* the reply that request's call returned.
C8_Serialised ==
    \A a \in Tasks :
        /\ pc[a] = "await" =>
              /\ running = <<a>>
              /\ \A b \in Tasks \ {a} : pc[b] \in {"idle", "ready", "done"}
        /\ sends[a] >= 1 =>
              \A i \in DOMAIN context[a] :
                  \E b \in Tasks \ {a} :
                      /\ pc[b] \in {"text", "done"}
                      /\ ~ upstream_failed[b]
                      /\ context[a][i] = ExchangeOf(b)

\* A waits for its reply while B has arrived and is not yet answered.
C8_Witness ==
    \E a, b \in Tasks : a # b /\ pc[a] = "await" /\ pc[b] = "ready"

\* C9 as stated: at most one prompt per request, exactly one for a request
\* that carries code or a file, and a failed call ends the request with an
\* error and no success body.
C9_AsStated ==
    \A r \in Tasks :
        /\ sends[r] <= 1
        /\ (pc[r] = "done" /\ Valid(r)) => sends[r] = 1
        /\ (pc[r] = "done" /\ upstream_failed[r]) =>
              status[r] = 500 /\ response[r] = <<>>

\* C9 amended: at most one prompt per request; exactly one for a request
\* whose code string was resolved, none for a valid request whose upload
\* cannot be read back as text (it is answered 500); a failed call ends the
\* request at once with an error, no second send and no success body.
C9_OnePrompt ==
    \A r \in Tasks :
        /\ sends[r] <= 1
        /\ (pc[r] = "done" /\ code_input[r] # <<>>) => sends[r] = 1
        /\ (pc[r] = "done" /\ Valid(r) /\ code_input[r] = <<>>) =>
              sends[r] = 0 /\ status[r] = 500 /\ response[r] = <<>>
        /\ upstream_failed[r] =>
              /\ pc[r] = "done"
              /\ sends[r] = 1
              /\ status[r] = 500
              /\ response[r] = <<>>

\* A call to the service failed and the request is answered.
C9_Witness ==
    \E r \in Tasks : upstream_failed[r] /\ pc[r] = "done" /\ sends[r] = 1

\* C10: a file-based request sends its own upload, read back as text, even
\* when another request in flight carries other bytes under the same name:
\* between its write and its read-back it keeps the event loop.
C10_OwnContent ==
    \A r \in Tasks :
        FileBased(r) =>
            /\ pc[r] = "read" =>
                  running = <<r>> /\ uploads[file[r][1].filename] = << file[r][1].bytes >>
            /\ code_input[r] # <<>> => code_input[r] = ReadText(file[r][1].bytes)
            /\ sends[r] >= 1 =>
                  prompt[r] = << Prompt(ReadText(file[r][1].bytes)[1]) >>

\* A has sent its upload while B, in flight, carries other bytes for the
\* same filename.
C10_Witness ==
    \E a, b \in Tasks :
        /\ a # b
        /\ FileBased(a) /\ pc[a] = "await"
        /\ FileBased(b) /\ pc[b] = "ready"
        /\ file[a][1].filename = file[b][1].filename
        /\ file[a][1].bytes # file[b][1].bytes

====
